---- MODULE Spec2Model ----
(***************************************************************************)
(* A model of the contrastive dataset pipeline (pngr/create_dataset.py)    *)
(* and of the interactive session (palinor/cli/cli.py, class palinorShell).*)
(*                                                                         *)
(* A Python str is a sequence of characters.  A character is a TLA+ string;*)
(* a run of plain letters that no operation looks inside ("kind", "Hi",    *)
(* the word "identity") is written as one character.                       *)
(***************************************************************************)
EXTENDS Integers, Sequences, FiniteSets

(***************************************************************************)
(* Characters that the code or its libraries treat specially.              *)
(***************************************************************************)
LBRACE == "{"
RBRACE == "}"
IDENTITY == "identity"
LF == "<LF>"
QUOTE == "<QUOTE>"
BACKSLASH == "<BACKSLASH>"

(***************************************************************************)
(* Outcomes of a call: a normal return carries a value, a raised exception *)
(* carries its class.                                                      *)
(***************************************************************************)
Return(v) == [exc |-> "none", value |-> v]
Raise(e) == [exc |-> e, value |-> <<>>]

(***************************************************************************)
(* str.format(identity=value), as the interpreter's format-string scanner  *)
(* does it: left to right, "{{" and "}}" are literal braces, "{" opens a   *)
(* replacement field that runs to its matching "}", a "}" on its own is an *)
(* error, and the field is looked up among the keyword arguments, of which *)
(* there is exactly one, identity.                                         *)
(***************************************************************************)
RECURSIVE MatchClose(_, _, _)
MatchClose(s, j, depth) ==
    IF j > Len(s) THEN 0
    ELSE IF s[j] = LBRACE THEN MatchClose(s, j + 1, depth + 1)
    ELSE IF s[j] = RBRACE
         THEN IF depth = 1 THEN j ELSE MatchClose(s, j + 1, depth - 1)
    ELSE MatchClose(s, j + 1, depth)

FieldValue(name, value) ==
    IF \E k \in 1..Len(name) : name[k] \in {LBRACE, RBRACE} THEN Raise("ValueError")
    ELSE IF name = <<>> THEN Raise("IndexError")
    ELSE IF name = <<IDENTITY>> THEN Return(value)
    ELSE Raise("KeyError")

RECURSIVE FormatFrom(_, _, _, _)
FormatFrom(s, i, value, out) ==
    IF i > Len(s) THEN Return(out)
    ELSE IF s[i] = LBRACE
         THEN IF i < Len(s) /\ s[i + 1] = LBRACE
              THEN FormatFrom(s, i + 2, value, Append(out, LBRACE))
              ELSE LET j == MatchClose(s, i + 1, 1)
                   IN IF j = 0 THEN Raise("ValueError")
                      ELSE LET f == FieldValue(SubSeq(s, i + 1, j - 1), value)
                           IN IF f.exc # "none" THEN f
                              ELSE FormatFrom(s, j + 1, value, out \o f.value)
    ELSE IF s[i] = RBRACE
         THEN IF i < Len(s) /\ s[i + 1] = RBRACE
              THEN FormatFrom(s, i + 2, value, Append(out, RBRACE))
              ELSE Raise("ValueError")
    ELSE FormatFrom(s, i + 1, value, Append(out, s[i]))

Format(system_template, identity) == FormatFrom(system_template, 1, identity, <<>>)

(***************************************************************************)
(* The body of create_personality_prompts once the template file is read.  *)
(***************************************************************************)
Message(role, content) == [role |-> role, content |-> content]

Entry(system1, system2, user_prompt) ==
    [a |-> <<Message("system", system1), Message("user", user_prompt)>>,
     b |-> <<Message("system", system2), Message("user", user_prompt)>>]

\* A Generator that puts each record's entries before those of the records
\* already expanded.
RECURSIVE GeneratePromptsNewestFirst(_, _, _, _, _)
GeneratePromptsNewestFirst(templates, i, a_adjective, b_adjective, prompts) ==
    IF i > Len(templates) THEN Return(prompts)
    ELSE LET system_template == templates[i].system_template
             user_prompts == templates[i].prompts
             system1 == Format(system_template, a_adjective)
             system2 == Format(system_template, b_adjective)
         IN IF system1.exc # "none" THEN Raise(system1.exc)
            ELSE IF system2.exc # "none" THEN Raise(system2.exc)
            ELSE GeneratePromptsNewestFirst(templates, i + 1, a_adjective, b_adjective,
                     [k \in 1..Len(user_prompts) |->
                         Entry(system1.value, system2.value, user_prompts[k])]
                     \o prompts)

RECURSIVE GeneratePrompts(_, _, _, _, _)
GeneratePrompts(templates, i, a_adjective, b_adjective, prompts) ==
    IF i > Len(templates) THEN Return(prompts)
    ELSE LET system_template == templates[i].system_template
             user_prompts == templates[i].prompts
             system1 == Format(system_template, a_adjective)
             system2 == Format(system_template, b_adjective)
         IN IF system1.exc # "none" THEN Raise(system1.exc)
            ELSE IF system2.exc # "none" THEN Raise(system2.exc)
            ELSE GeneratePrompts(templates, i + 1, a_adjective, b_adjective,
                     prompts \o [k \in 1..Len(user_prompts) |->
                         Entry(system1.value, system2.value, user_prompts[k])])

(***************************************************************************)
(* A path of the file system holds a file with its content, or nothing.    *)
(* The content of a template file is what yaml.safe_load makes of it, a    *)
(* sequence of records; load_yaml_template opens the path for reading.     *)
(***************************************************************************)
NoFile == [exists |-> FALSE, content |-> <<>>]
File(content) == [exists |-> TRUE, content |-> content]

load_yaml_template(disk, file_path) ==
    IF file_path \notin DOMAIN disk \/ ~disk[file_path].exists
    THEN Raise("FileNotFoundError")
    ELSE Return(disk[file_path].content)

create_personality_prompts(disk, template_path, a_adjective, b_adjective) ==
    LET templates == load_yaml_template(disk, template_path)
    IN IF templates.exc # "none" THEN templates
       ELSE GeneratePrompts(templates.value, 1, a_adjective, b_adjective, <<>>)

(***************************************************************************)
(* json.dumps of one entry.  The punctuation and keys of the object are    *)
(* single characters of the line; a str value is written between quotes    *)
(* with quote, backslash and line feed escaped (ensure_ascii leaves plain  *)
(* letters as they are).                                                   *)
(***************************************************************************)
\* An encoder that writes a line feed as it is.
EscapeCharRawLineFeed(c) ==
    IF c = QUOTE THEN <<BACKSLASH, QUOTE>>
    ELSE IF c = BACKSLASH THEN <<BACKSLASH, BACKSLASH>>
    ELSE <<c>>

EscapeChar(c) ==
    IF c = QUOTE THEN <<BACKSLASH, QUOTE>>
    ELSE IF c = BACKSLASH THEN <<BACKSLASH, BACKSLASH>>
    ELSE IF c = LF THEN <<BACKSLASH, "n">>
    ELSE <<c>>

RECURSIVE EscapeFrom(_, _)
EscapeFrom(s, i) ==
    IF i > Len(s) THEN <<>> ELSE EscapeChar(s[i]) \o EscapeFrom(s, i + 1)

dumps_str(s) == <<QUOTE>> \o EscapeFrom(s, 1) \o <<QUOTE>>

dumps_message(m) ==
    <<"{", "role:">> \o dumps_str(<<m.role>>) \o <<",", "content:">>
        \o dumps_str(m.content) \o <<"}">>

dumps_conversation(c) ==
    <<"[">> \o dumps_message(c[1]) \o <<",">> \o dumps_message(c[2]) \o <<"]">>

json_dumps(prompt) ==
    <<"{", "a:">> \o dumps_conversation(prompt.a) \o <<",", "b:">>
        \o dumps_conversation(prompt.b) \o <<"}">>

(***************************************************************************)
(* save_prompts: open(output_file, "w") truncates the file, then one line  *)
(* per prompt is written in order.  The environment may refuse the open    *)
(* (the file keeps its content) or a write (the lines written so far       *)
(* stay); both surface as OSError.                                         *)
(***************************************************************************)
RECURSIVE WrittenLines(_, _)
WrittenLines(prompts, n) ==
    IF n = 0 THEN <<>>
    ELSE WrittenLines(prompts, n - 1) \o json_dumps(prompts[n]) \o <<LF>>

NoFault == [kind |-> "none", after |-> 0]
Faults(prompts) ==
    {NoFault, [kind |-> "open", after |-> 0]}
        \cup {[kind |-> "write", after |-> k] : k \in 0..(Len(prompts) - 1)}

\* A save that opens the file for appending.
save_prompts_appending(prompts, old, fault) ==
    IF fault.kind = "open" THEN [exc |-> "OSError", file |-> old]
    ELSE IF fault.kind = "write"
         THEN [exc |-> "OSError",
               file |-> File(old.content \o WrittenLines(prompts, fault.after))]
    ELSE [exc |-> "none",
          file |-> File(old.content \o WrittenLines(prompts, Len(prompts)))]

save_prompts(prompts, old, fault) ==
    IF fault.kind = "open" THEN [exc |-> "OSError", file |-> old]
    ELSE IF fault.kind = "write"
         THEN [exc |-> "OSError", file |-> File(WrittenLines(prompts, fault.after))]
    ELSE [exc |-> "none", file |-> File(WrittenLines(prompts, Len(prompts)))]

(***************************************************************************)
(* load: the reading half of the serializer.  The text is cut into lines   *)
(* at line feeds and every line is parsed as one JSON object of the shape  *)
(* save writes; a line that does not parse is a SerializationError.        *)
(***************************************************************************)
Parsed(v, next) == [ok |-> TRUE, value |-> v, next |-> next]
ParseError == [ok |-> FALSE, value |-> <<>>, next |-> 0]

Expect(line, i, literal) ==
    /\ i + Len(literal) - 1 <= Len(line)
    /\ SubSeq(line, i, i + Len(literal) - 1) = literal

RECURSIVE ScanString(_, _, _)
ScanString(line, i, out) ==
    IF i > Len(line) THEN ParseError
    ELSE IF line[i] = QUOTE THEN Parsed(out, i + 1)
    ELSE IF line[i] = LF THEN ParseError
    ELSE IF line[i] = BACKSLASH
         THEN IF i = Len(line) THEN ParseError
              ELSE IF line[i + 1] = QUOTE
                   THEN ScanString(line, i + 2, Append(out, QUOTE))
              ELSE IF line[i + 1] = BACKSLASH
                   THEN ScanString(line, i + 2, Append(out, BACKSLASH))
              ELSE IF line[i + 1] = "n"
                   THEN ScanString(line, i + 2, Append(out, LF))
              ELSE ParseError
    ELSE ScanString(line, i + 1, Append(out, line[i]))

loads_str(line, i) ==
    IF Expect(line, i, <<QUOTE>>) THEN ScanString(line, i + 1, <<>>) ELSE ParseError

loads_message(line, i) ==
    IF ~Expect(line, i, <<"{", "role:">>) THEN ParseError
    ELSE LET role == loads_str(line, i + 2)
         IN IF ~role.ok \/ Len(role.value) # 1 THEN ParseError
            ELSE IF ~Expect(line, role.next, <<",", "content:">>) THEN ParseError
            ELSE LET content == loads_str(line, role.next + 2)
                 IN IF ~content.ok THEN ParseError
                    ELSE IF ~Expect(line, content.next, <<"}">>) THEN ParseError
                    ELSE Parsed(Message(role.value[1], content.value),
                                content.next + 1)

loads_conversation(line, i) ==
    IF ~Expect(line, i, <<"[">>) THEN ParseError
    ELSE LET m1 == loads_message(line, i + 1)
         IN IF ~m1.ok THEN ParseError
            ELSE IF ~Expect(line, m1.next, <<",">>) THEN ParseError
            ELSE LET m2 == loads_message(line, m1.next + 1)
                 IN IF ~m2.ok THEN ParseError
                    ELSE IF ~Expect(line, m2.next, <<"]">>) THEN ParseError
                    ELSE Parsed(<<m1.value, m2.value>>, m2.next + 1)

json_loads(line) ==
    IF ~Expect(line, 1, <<"{", "a:">>) THEN ParseError
    ELSE LET a == loads_conversation(line, 3)
         IN IF ~a.ok THEN ParseError
            ELSE IF ~Expect(line, a.next, <<",", "b:">>) THEN ParseError
            ELSE LET b == loads_conversation(line, a.next + 2)
                 IN IF ~b.ok THEN ParseError
                    ELSE IF ~Expect(line, b.next, <<"}">>) THEN ParseError
                    ELSE IF b.next # Len(line) THEN ParseError
                    ELSE Parsed([a |-> a.value, b |-> b.value], b.next + 1)

\* The lines of a text: what stands between one line feed and the next; a
\* last line without its line feed counts when it is not empty.
LineFeeds(text) == {i \in 1..Len(text) : text[i] = LF}
LineFeed(text, k) ==
    IF k = 0 THEN 0
    ELSE CHOOSE i \in LineFeeds(text) :
             Cardinality({j \in LineFeeds(text) : j <= i}) = k

SplitLines(text) ==
    LET n == Cardinality(LineFeeds(text))
        whole == [k \in 1..n |->
                     SubSeq(text, LineFeed(text, k - 1) + 1, LineFeed(text, k) - 1)]
        rest == SubSeq(text, LineFeed(text, n) + 1, Len(text))
    IN IF rest = <<>> THEN whole ELSE Append(whole, rest)

RECURSIVE LoadLines(_, _, _)
LoadLines(lines, i, entries) ==
    IF i > Len(lines) THEN Return(entries)
    ELSE LET e == json_loads(lines[i])
         IN IF ~e.ok THEN Raise("SerializationError")
            ELSE LoadLines(lines, i + 1, Append(entries, e.value))

load_prompts(file) ==
    IF ~file.exists THEN Raise("NotFoundError")
    ELSE LoadLines(SplitLines(file.content), 1, <<>>)

(***************************************************************************)
(* State.                                                                  *)
(*   template_disk  template files: path -> parsed content or NoFile       *)
(*   files          dataset files: path -> text written or NoFile          *)
(*   pc, args, result, loaded                                              *)
(*                  one run of the pipeline: generate, save, load          *)
(*   datasets       palinorShell.datasets, a dict in insertion order       *)
(*   datasets_dir   whether ~/.palinor/datasets exists                     *)
(*   manager        the palinorManager: the train_vector calls it received *)
(*   console        what the last operation printed                        *)
(*   last           the last operation of the session, its arguments and   *)
(*                  the exception it raised ("none": it returned)          *)
(* History kept for the properties only:                                   *)
(*   first_registered  the names in the order of their first registration  *)
(*   created_with      name -> the traits of its last registration         *)
(*   last_saved        path -> the name whose save last wrote the path     *)
(*   save_failed       whether a save of the session has raised            *)
(***************************************************************************)
VARIABLES template_disk, files, pc, args, result, loaded,
          datasets, datasets_dir, manager, console, last,
          first_registered, created_with, last_saved, save_failed

pipeline_vars == <<template_disk, files, pc, args, result, loaded>>
session_vars == <<datasets, datasets_dir, manager, console, last,
                  first_registered, created_with, last_saved, save_failed>>
vars == <<template_disk, files, pc, args, result, loaded,
          datasets, datasets_dir, manager, console, last,
          first_registered, created_with, last_saved, save_failed>>

(***************************************************************************)
(* A Python dict keeps its keys in insertion order; assigning to a key     *)
(* that is present replaces its value where it stands.                     *)
(***************************************************************************)
DictHas(d, key) == \E i \in 1..Len(d) : d[i].key = key
DictIndex(d, key) == CHOOSE i \in 1..Len(d) : d[i].key = key
DictGet(d, key) == d[DictIndex(d, key)].value
DictKeys(d) == [i \in 1..Len(d) |-> d[i].key]
\* Three wrong assignments: one that adds the key again, one that moves an
\* assigned key to the end, one that forgets the other keys.
DictSetDuplicating(d, key, value) == Append(d, [key |-> key, value |-> value])
DictSetMovingToEnd(d, key, value) ==
    Append(SelectSeq(d, LAMBDA item : item.key # key), [key |-> key, value |-> value])
DictSetForgetting(d, key, value) == <<[key |-> key, value |-> value]>>

DictSet(d, key, value) ==
    IF DictHas(d, key)
    THEN [d EXCEPT ![DictIndex(d, key)] = [key |-> key, value |-> value]]
    ELSE Append(d, [key |-> key, value |-> value])

(***************************************************************************)
(* Paths.  datasets_dir / f"{name}.jsonl": pathlib cuts the right operand  *)
(* at "/" and drops empty and "." components, so "x" and "./x" name the    *)
(* same file of the datasets directory.                                    *)
(***************************************************************************)
Slashes(s) == {i \in 1..Len(s) : s[i] = "/"}
Slash(s, k) ==
    IF k = 0 THEN 0
    ELSE CHOOSE i \in Slashes(s) : Cardinality({j \in Slashes(s) : j <= i}) = k

PathParts(s) ==
    LET n == Cardinality(Slashes(s))
        pieces == [k \in 1..(n + 1) |->
                      SubSeq(s, Slash(s, k - 1) + 1,
                             IF k = n + 1 THEN Len(s) ELSE Slash(s, k) - 1)]
    IN SelectSeq(pieces, LAMBDA part : part # <<>> /\ part # <<".">>)

DatasetsDir == <<<<"~">>, <<".palinor">>, <<"datasets">>>>
OutputPath(name) == DatasetsDir \o PathParts(name \o <<".jsonl">>)

BundledTemplatePath == "<package>/dataset_templates/alphapenger.yaml"
None == "<None>"

(***************************************************************************)
(* The session's inputs: dataset names, trait pairs, template paths, and   *)
(* the template files they name.                                           *)
(***************************************************************************)
Names == {<<"x">>, <<"y">>, <<".", "/", "x">>}
VectorNames == {<<"v">>}
SessionTraitPairs == {<<<<"kind">>, <<"cruel">>>>, <<<<"cruel">>, <<"kind">>>>}
TemplatePaths == {None, "broken.yaml", "missing.yaml"}

SessionTemplates ==
    [p \in {BundledTemplatePath, "broken.yaml", "missing.yaml"} |->
        IF p = BundledTemplatePath
        THEN File(<<[system_template |-> <<"Be", LBRACE, IDENTITY, RBRACE>>,
                     prompts |-> <<<<"Hi">>, <<"Joke">>>>]>>)
        ELSE IF p = "broken.yaml"
        THEN File(<<[system_template |-> <<"Be", LBRACE, IDENTITY>>,
                     prompts |-> <<<<"Hi">>>>]>>)
        ELSE NoFile]

DatasetPaths == {OutputPath(n) : n \in Names}

(***************************************************************************)
(* What an operation leaves behind: its name, its arguments, the exception *)
(* that left it.                                                           *)
(***************************************************************************)
NoArgs == [name |-> <<>>, a_trait |-> <<>>, b_trait |-> <<>>,
           template_path |-> None, dataset_name |-> <<>>]
Done(op, arguments, exc) == [op |-> op, args |-> arguments, exc |-> exc]
Line(text, name, count) == [text |-> text, name |-> name, count |-> count]

NoSession ==
    /\ datasets = <<>>
    /\ datasets_dir = FALSE
    /\ manager = [trained |-> <<>>]
    /\ console = <<>>
    /\ last = Done("start", NoArgs, "none")
    /\ first_registered = <<>>
    /\ created_with = [n \in Names |-> <<>>]
    /\ last_saved = [p \in DatasetPaths |-> <<>>]
    /\ save_failed = FALSE

NoPipeline ==
    /\ pc = "start"
    /\ args = [a_adjective |-> <<>>, b_adjective |-> <<>>]
    /\ result = Return(<<>>)
    /\ loaded = Return(<<>>)

(***************************************************************************)
(* palinorShell.__init__                                                   *)
(***************************************************************************)
Init ==
    /\ template_disk = SessionTemplates
    /\ files = [p \in DatasetPaths |-> NoFile]
    /\ NoSession
    /\ NoPipeline

(***************************************************************************)
(* palinorShell.create_dataset                                             *)
(***************************************************************************)
create_dataset(name, a_trait, b_trait, template_path) ==
    LET path == IF template_path = None THEN BundledTemplatePath ELSE template_path
        prompts == create_personality_prompts(template_disk, path, a_trait, b_trait)
        output_path == OutputPath(name)
        arguments == [NoArgs EXCEPT !.name = name, !.a_trait = a_trait,
                                    !.b_trait = b_trait,
                                    !.template_path = template_path]
    IN IF prompts.exc # "none"
       THEN /\ last' = Done("create_dataset", arguments, prompts.exc)
            /\ console' = <<>>
            /\ UNCHANGED <<files, datasets, datasets_dir, manager, first_registered,
                           created_with, last_saved, save_failed>>
       ELSE \E fault \in Faults(prompts.value) :
              LET saved == save_prompts(prompts.value, files[output_path], fault)
              IN /\ datasets_dir' = TRUE
                 /\ files' = [files EXCEPT ![output_path] = saved.file]
                 /\ IF saved.exc # "none"
                    THEN /\ last' = Done("create_dataset", arguments, saved.exc)
                         /\ console' = <<>>
                         /\ save_failed' = TRUE
                         /\ UNCHANGED <<datasets, first_registered, created_with,
                                        last_saved>>
                    ELSE /\ datasets' = DictSet(datasets, name, prompts.value)
                         /\ console' =
                               <<Line("Created dataset", name, Len(prompts.value)),
                                 Line("Saved to", output_path, 0)>>
                         /\ last' = Done("create_dataset", arguments, "none")
                         /\ first_registered' =
                               IF \E i \in 1..Len(first_registered) :
                                      first_registered[i] = name
                               THEN first_registered
                               ELSE Append(first_registered, name)
                         /\ created_with' =
                               [created_with EXCEPT ![name] = <<a_trait, b_trait>>]
                         /\ last_saved' = [last_saved EXCEPT ![output_path] = name]
                         /\ UNCHANGED save_failed
                 /\ UNCHANGED manager

(***************************************************************************)
(* palinorShell.list_datasets                                              *)
(***************************************************************************)
list_datasets ==
    /\ console' =
          IF datasets = <<>>
          THEN <<Line("No datasets created yet", <<>>, 0)>>
          ELSE <<Line("Available datasets:", <<>>, 0)>>
                   \o [i \in 1..Len(datasets) |->
                          Line("item", datasets[i].key, Len(datasets[i].value))]
    /\ last' = Done("list_datasets", NoArgs, "none")
    /\ UNCHANGED <<files, datasets, datasets_dir, manager, first_registered,
                   created_with, last_saved, save_failed>>

(***************************************************************************)
(* palinorShell.train_vector.  The entries of a dataset are the dicts      *)
(* create_personality_prompts built: dataset[0] raises IndexError on an    *)
(* empty dataset, and the attribute a_trait of a dict is looked up among   *)
(* the attributes of dict, not among its keys.                             *)
(***************************************************************************)
DictAttributes == {"get", "items", "keys", "values"}

GetItem(list, index) ==
    IF index + 1 > Len(list) THEN Raise("IndexError") ELSE Return(list[index + 1])

GetAttr(object, attribute) ==
    IF object.exc # "none" THEN object
    ELSE IF attribute \in DictAttributes THEN Return(<<attribute>>)
    ELSE Raise("AttributeError")

\* A train_vector without the check that the dataset is registered.
train_vector_unguarded(name, dataset_name) ==
    /\ console' = <<>>
    /\ last' = Done("train_vector",
                    [NoArgs EXCEPT !.name = name, !.dataset_name = dataset_name],
                    IF ~DictHas(datasets, dataset_name) THEN "KeyError"
                    ELSE "AttributeError")
    /\ UNCHANGED manager

train_vector(name, dataset_name) ==
    LET arguments == [NoArgs EXCEPT !.name = name, !.dataset_name = dataset_name]
    IN IF ~DictHas(datasets, dataset_name)
       THEN /\ console' = <<Line("Dataset not found", dataset_name, 0)>>
            /\ last' = Done("train_vector", arguments, "none")
            /\ UNCHANGED manager
       ELSE LET dataset == DictGet(datasets, dataset_name)
                a_trait == GetAttr(GetItem(dataset, 0), "a_trait")
                b_trait == GetAttr(GetItem(dataset, 0), "b_trait")
            IN IF a_trait.exc # "none"
               THEN /\ console' = <<>>
                    /\ last' = Done("train_vector", arguments, a_trait.exc)
                    /\ UNCHANGED manager
               ELSE IF b_trait.exc # "none"
               THEN /\ console' = <<>>
                    /\ last' = Done("train_vector", arguments, b_trait.exc)
                    /\ UNCHANGED manager
               ELSE /\ manager' = [manager EXCEPT !.trained =
                           Append(@, <<name, a_trait.value, b_trait.value>>)]
                    /\ console' = <<Line("Vector trained and saved!", name, 0)>>
                    /\ last' = Done("train_vector", arguments, "none")

(***************************************************************************)
(* palinorShell.list_vectors, complete and help.  The manager answers with *)
(* the vectors it trained; its generate returns a text or raises.          *)
(***************************************************************************)
list_vectors ==
    /\ console' =
          IF manager.trained = <<>>
          THEN <<Line("No vectors available", <<>>, 0)>>
          ELSE <<Line("Available vectors:", <<>>, 0)>>
                   \o [i \in 1..Len(manager.trained) |->
                          Line("item", manager.trained[i][1], 0)]
    /\ last' = Done("list_vectors", NoArgs, "none")
    /\ UNCHANGED <<files, datasets, datasets_dir, manager, first_registered,
                   created_with, last_saved, save_failed>>

complete(prompt, vector, generated) ==
    /\ console' = IF generated = "raises" THEN <<>>
                  ELSE <<Line("Generated text:", <<>>, 0), Line(generated, <<>>, 0)>>
    /\ last' = Done("complete", NoArgs,
                    IF generated = "raises" THEN "DelegateError" ELSE "none")
    /\ UNCHANGED <<files, datasets, datasets_dir, manager, first_registered,
                   created_with, last_saved, save_failed>>

help ==
    /\ console' = <<Line("Available commands:", <<>>, 0)>>
    /\ last' = Done("help", NoArgs, "none")
    /\ UNCHANGED <<files, datasets, datasets_dir, manager, first_registered,
                   created_with, last_saved, save_failed>>

(***************************************************************************)
(* The session: the user calls the operations in any order; an exception   *)
(* is shown by the interactive shell and the session goes on.              *)
(***************************************************************************)
pipeline_frame == <<template_disk, pc, args, result, loaded>>

CreateDataset ==
    /\ \E name \in Names, traits \in SessionTraitPairs, template_path \in TemplatePaths :
          create_dataset(name, traits[1], traits[2], template_path)
    /\ UNCHANGED pipeline_frame

ListDatasets == list_datasets /\ UNCHANGED pipeline_frame

TrainVector ==
    /\ \E name \in VectorNames, dataset_name \in Names :
          train_vector(name, dataset_name)
    /\ UNCHANGED <<files, datasets, datasets_dir, first_registered,
                   created_with, last_saved, save_failed>>
    /\ UNCHANGED pipeline_frame

ListVectors == list_vectors /\ UNCHANGED pipeline_frame

Complete ==
    /\ \E vector \in {None, "v"}, generated \in {"text", "raises"} :
          complete(<<"Hi">>, vector, generated)
    /\ UNCHANGED pipeline_frame

Help == help /\ UNCHANGED pipeline_frame

Next ==
    \/ CreateDataset
    \/ ListDatasets
    \/ TrainVector
    \/ ListVectors
    \/ Complete
    \/ Help

Spec == Init /\ [][Next]_vars

(***************************************************************************)
(* Bounded inputs of the pipeline.  The size of a template file is its     *)
(* number of records plus the characters of their system templates plus    *)
(* their prompts; every template file up to MaxInputSize is an input.      *)
(***************************************************************************)
MaxInputSize == 6

TemplateAlphabet == {LBRACE, RBRACE, IDENTITY}
PromptStrings == {<<QUOTE, LF>>, <<BACKSLASH, "n">>}
Traits == {<<"kind">>, <<"cruel">>}

RecordsOfSize(n) ==
    UNION {{[system_template |-> t, prompts |-> ps] :
                t \in [1..k -> TemplateAlphabet],
                ps \in [1..(n - 1 - k) -> PromptStrings]} : k \in 0..(n - 1)}

RECURSIVE TemplatesOfSize(_)
TemplatesOfSize(n) ==
    IF n = 0 THEN {<<>>}
    ELSE UNION {{<<r>> \o rest : r \in RecordsOfSize(k),
                                 rest \in TemplatesOfSize(n - k)} : k \in 1..n}

TemplatesUpTo(size) == UNION {TemplatesOfSize(n) : n \in 0..size}

DefaultTemplatePath == "dataset_templates/alphapenger.yaml"
DefaultOutputFile == "vector_dataset.jsonl"
StaleText == <<"stale", LF>>

PipelineInit ==
    /\ template_disk \in {[p \in {DefaultTemplatePath} |-> File(t)] : t \in TemplatesUpTo(MaxInputSize)}
    /\ files \in {[p \in {DefaultOutputFile} |-> f] : f \in {NoFile, File(StaleText)}}
    /\ args \in [a_adjective : Traits, b_adjective : Traits]
    /\ pc = "start"
    /\ result = Return(<<>>)
    /\ loaded = Return(<<>>)
    /\ NoSession

RunGenerator ==
    /\ pc = "start"
    /\ result' = create_personality_prompts(template_disk, DefaultTemplatePath,
                                            args.a_adjective, args.b_adjective)
    /\ pc' = IF result'.exc = "none" THEN "generated" ELSE "generator_raised"
    /\ UNCHANGED <<template_disk, files, args, loaded>>
    /\ UNCHANGED session_vars

RunSave ==
    /\ pc = "generated"
    /\ \E fault \in Faults(result.value) :
          LET saved == save_prompts(result.value, files[DefaultOutputFile], fault)
          IN /\ files' = [files EXCEPT ![DefaultOutputFile] = saved.file]
             /\ pc' = IF saved.exc = "none" THEN "saved" ELSE "save_raised"
    /\ UNCHANGED <<template_disk, args, result, loaded>>
    /\ UNCHANGED session_vars

RunLoad ==
    /\ pc = "saved"
    /\ loaded' = load_prompts(files[DefaultOutputFile])
    /\ pc' = "loaded"
    /\ UNCHANGED <<template_disk, files, args, result>>
    /\ UNCHANGED session_vars

PipelineNext == RunGenerator \/ RunSave \/ RunLoad

PipelineSpec == PipelineInit /\ [][PipelineNext]_vars

(***************************************************************************)
(* Properties of the pipeline, checked under PipelineSpec.                 *)
(***************************************************************************)
GeneratorInput == template_disk[DefaultTemplatePath].content
GeneratorReturned == pc # "start" /\ result.exc = "none"
GeneratorRaised == pc # "start" /\ result.exc # "none"

\* The replacement field {identity} occurs in the system template.
ContainsPlaceholder(system_template) ==
    \E i \in 1..(Len(system_template) - 2) :
        SubSeq(system_template, i, i + 2) = <<LBRACE, IDENTITY, RBRACE>>

\* C1: every entry the Generator returns has the same user prompt in both
\* halves, and different system prompts whenever the two traits differ.
C1_PairingInvariant ==
    GeneratorReturned =>
        \A i \in 1..Len(result.value) :
            LET e == result.value[i]
            IN /\ e.a[2].content = e.b[2].content
               /\ args.a_adjective # args.b_adjective
                      => e.a[1].content # e.b[1].content

\* C2: a template file with a record whose system template lacks the
\* placeholder makes the Generator fail with TemplateFormatError; it never
\* returns entries.
C2_MissingPlaceholderFails ==
    (/\ pc # "start"
     /\ \E i \in 1..Len(GeneratorInput) :
            ~ContainsPlaceholder(GeneratorInput[i].system_template))
        => result.exc = "TemplateFormatError"

\* The prompts of the records, record after record, each record's in order.
RECURSIVE PromptsInOrder(_)
PromptsInOrder(templates) ==
    IF templates = <<>> THEN <<>>
    ELSE Head(templates).prompts \o PromptsInOrder(Tail(templates))

RECURSIVE SumOfPromptCounts(_)
SumOfPromptCounts(templates) ==
    IF templates = <<>> THEN 0
    ELSE Len(Head(templates).prompts) + SumOfPromptCounts(Tail(templates))

UserContents(prompts) == [i \in 1..Len(prompts) |-> prompts[i].a[2].content]

\* C3: the user contents of the Generator's output are the records' prompts
\* in record order and prompt order, so the number of entries is the sum of
\* the prompt counts; the Generator raises only when str.format rejects a
\* system template, never because a prompts list is empty.
C3_OrderAndCount ==
    /\ GeneratorReturned =>
          /\ UserContents(result.value) = PromptsInOrder(GeneratorInput)
          /\ Len(result.value) = SumOfPromptCounts(GeneratorInput)
    /\ GeneratorRaised =>
          \E i \in 1..Len(GeneratorInput) :
              Format(GeneratorInput[i].system_template, args.a_adjective).exc # "none"

\* C3 witness: the Generator returned for two records, one with no prompts
\* and one with two different prompts.
C3_Witness ==
    /\ GeneratorReturned
    /\ Len(GeneratorInput) = 2
    /\ \E i, j \in 1..2 :
          /\ GeneratorInput[i].prompts = <<>>
          /\ Len(GeneratorInput[j].prompts) = 2
          /\ GeneratorInput[j].prompts[1] # GeneratorInput[j].prompts[2]

\* C9: what save wrote is one JSON line per entry, in order, and nothing
\* else; loading the saved file gives back the generated entries.
C9_RoundTrip ==
    /\ pc \in {"saved", "loaded"} =>
          SplitLines(files[DefaultOutputFile].content)
              = [i \in 1..Len(result.value) |-> json_dumps(result.value[i])]
    /\ pc = "loaded" => loaded = Return(result.value)

\* C9 witness: a dataset of two entries whose contents have a quote, a line
\* feed and a backslash was saved and loaded.
C9_Witness ==
    /\ pc = "loaded"
    /\ Len(result.value) = 2
    /\ result.value[1].a[2].content = <<QUOTE, LF>>
    /\ result.value[2].a[2].content = <<BACKSLASH, "n">>
    /\ result.value[1].a[1].content = <<"kind">>

(***************************************************************************)
(* Properties of the session, checked under Spec.                          *)
(***************************************************************************)
Registered(name) == DictHas(datasets, name)
RegisteredNames == {datasets[i].key : i \in 1..Len(datasets)}
Listed == [i \in 1..(Len(console) - 1) |-> console[i + 1].name]

\* C4: train_vector on a registered dataset returns and has called the
\* manager's train_vector exactly once, with the vector name and the two
\* traits the dataset was created with.
C4_TrainVectorDelegates ==
    [][(last'.op = "train_vector" /\ DictHas(datasets, last'.args.dataset_name)) =>
          /\ last'.exc = "none"
          /\ manager'.trained =
                Append(manager.trained,
                       <<last'.args.name,
                         created_with[last'.args.dataset_name][1],
                         created_with[last'.args.dataset_name][2]>>)]_vars

C6_CreateRegisters ==
    [][(last'.op = "create_dataset" /\ last'.exc = "none") =>
          LET call == last'.args
              path == IF call.template_path = None THEN BundledTemplatePath
                      ELSE call.template_path
              generated == create_personality_prompts(template_disk, path,
                               call.a_trait, call.b_trait)
          IN /\ generated.exc = "none"
             /\ DictHas(datasets', call.name)
             /\ DictGet(datasets', call.name) = generated.value
             /\ \A i, j \in 1..Len(datasets') :
                    datasets'[i].key = datasets'[j].key => i = j
             /\ \A n \in Names \ {call.name} :
                    /\ DictHas(datasets', n) = DictHas(datasets, n)
                    /\ DictHas(datasets, n) =>
                           DictGet(datasets', n) = DictGet(datasets, n)
             /\ datasets = <<>> => DictKeys(datasets') = <<call.name>>]_vars

\* C6 witness: create_dataset succeeded for the name registered first, after
\* two other names were registered, and it holds other traits than the rest.
C6_Witness ==
    /\ last.op = "create_dataset"
    /\ last.exc = "none"
    /\ Len(datasets) = 3
    /\ datasets[1].key = last.args.name
    /\ datasets[1].value # datasets[2].value

\* C7: list_datasets returns without an error; on an empty registry it
\* reports that there are none, and otherwise it lists every registered
\* name once, in the order in which the names were first registered.
C7_ListInInsertionOrder ==
    last.op = "list_datasets" =>
        /\ last.exc = "none"
        /\ datasets = <<>> => console = <<Line("No datasets created yet", <<>>, 0)>>
        /\ datasets # <<>> =>
              /\ Listed = first_registered
              /\ \A i, j \in 1..Len(Listed) : Listed[i] = Listed[j] => i = j
              /\ {Listed[i] : i \in 1..Len(Listed)} = RegisteredNames

\* C7 witness: three names are listed, registered with different traits.
C7_Witness ==
    /\ last.op = "list_datasets"
    /\ Len(datasets) = 3
    /\ datasets[1].value # datasets[2].value
    /\ datasets[2].value = datasets[3].value
    /\ created_with[datasets[1].key] # created_with[datasets[2].key]

\* C8: the registry is empty when the session starts; no operation takes a
\* name out of it, and only create_dataset changes it.
C8_RegistryGrows ==
    /\ datasets = <<>>
    /\ [][/\ \A n \in Names : DictHas(datasets, n) => DictHas(datasets', n)
          /\ last'.op # "create_dataset" => datasets' = datasets
          /\ last'.exc # "none" => datasets' = datasets]_vars

\* C8 witness: an operation other than create_dataset raised while two
\* names were registered.
C8_Witness ==
    /\ last.op = "train_vector"
    /\ last.exc # "none"
    /\ Len(datasets) = 2

\* A create_dataset that raised while loading the template or generating.
RaisedBeforeSave(operation) ==
    /\ operation.op = "create_dataset"
    /\ operation.exc \in {"FileNotFoundError", "ValueError", "KeyError", "IndexError"}

\* C10: while no save has failed, the canonical file of every registered
\* name holds exactly the entries registered under the name; and a
\* create_dataset that raises while loading the template or generating
\* changes neither the registry nor any dataset file.
C10_FilesMatchRegistry ==
    [][/\ ~save_failed' =>
             \A n \in Names :
                 DictHas(datasets', n) =>
                     files'[OutputPath(n)] =
                         File(WrittenLines(DictGet(datasets', n),
                                           Len(DictGet(datasets', n))))
       /\ RaisedBeforeSave(last') => datasets' = datasets /\ files' = files]_vars

\* C10, amended: while no save has failed, the canonical file of a registered
\* name holds exactly the entries registered under the name whenever the
\* name is the one whose create_dataset last wrote that file (two names can
\* have the same canonical file: "x" and "./x"); and a create_dataset that
\* raises while loading the template or generating changes neither the
\* registry nor any dataset file.
C10_FilesMatchLastWriter ==
    [][/\ ~save_failed' =>
             \A n \in Names :
                 (DictHas(datasets', n) /\ last_saved'[OutputPath(n)] = n) =>
                     files'[OutputPath(n)] =
                         File(WrittenLines(DictGet(datasets', n),
                                           Len(DictGet(datasets', n))))
       /\ RaisedBeforeSave(last') => datasets' = datasets /\ files' = files]_vars

\* C10 witness: two names with different files are registered with different
\* datasets, each the last writer of its file, and the last create_dataset
\* raised in the Generator.
C10_Witness ==
    /\ ~save_failed
    /\ last.op = "create_dataset"
    /\ last.exc = "ValueError"
    /\ Len(datasets) = 2
    /\ OutputPath(datasets[1].key) # OutputPath(datasets[2].key)
    /\ datasets[1].value # datasets[2].value
    /\ \A i \in 1..2 : last_saved[OutputPath(datasets[i].key)] = datasets[i].key

====
